---------------------------- MODULE Spec2Model ----------------------------
(***************************************************************************)
(* Column builders (polars-core/src/chunked_array/builder/mod.rs) and the  *)
(* row-wise string concatenation (polars-core/src/functions.rs).           *)
(*                                                                         *)
(* An optional value is a sequence of length at most one: <<>> is None and *)
(* <<v>> is Some(v).  A string is a sequence of characters, so that the    *)
(* empty string <<>> and a null slot are different things.                 *)
(***************************************************************************)
EXTENDS Integers, Sequences, FiniteSets, TLC

VARIABLES
    sb,        \* the scalar builder under construction (Boolean / numeric / Utf8)
    sbFed,     \* the optional values handed to sb so far, in call order
    sbOps,     \* the set of append operations used on sb so far
    sbOut,     \* <<>> while building, <<column>> once finish has returned
    lb,        \* the list builder (numeric / Utf8 / boolean variant)
    lbFed,     \* the logical rows handed to lb so far: None, or Some(the sub-column's slots)
    lbOps,     \* the set of operations called on lb so far
    lbLastOp,  \* the last operation called on lb
    lbLastArg, \* the sub-column the last operation was given: None or Some(c)
    lbOut,     \* what the calls of finish on lb returned, in call order
    csPc,      \* where concat_str stands: "idle", "validate", "rows", "done"
    csS,       \* concat_str's input columns, already string typed
    csDelim,   \* concat_str's delimiter
    csLen,     \* len: the maximum input length
    csCas,     \* cas: the inputs after the broadcast of length-1 columns
    csIters,   \* iters: one IterBroadCast per input
    csBuilder, \* None until the output builder is constructed, then Some(builder)
    csBuf,     \* buf: the scratch string
    csRow,     \* the number of output rows emitted
    csResult,  \* None while running, then Some(Ok(column)) or Some(Err(kind))
    glbCall,   \* None, or Some(the arguments get_list_builder was called with)
    glbElem,   \* the element type parameter of the builder get_list_builder made, if it has one
    glbFatal,  \* TRUE once get_list_builder has ended in its fatal branch
    abPc,      \* where argsort_by stands: "idle", "prepare", "sort", "done"
    abBy,      \* argsort_by's columns
    abReverse, \* argsort_by's reverse flags
    abPrepared,\* None until prepare_argsort has run, then Some(its result)
    abResult   \* None while running, then Some(Ok(indexes)) or Some(Err(kind))

scalarVars == <<sb, sbFed, sbOps, sbOut>>
listVars == <<lb, lbFed, lbOps, lbLastOp, lbLastArg, lbOut>>
concatVars == <<csPc, csS, csDelim, csLen, csCas, csIters, csBuilder, csBuf, csRow, csResult>>
factoryVars == <<glbCall, glbElem, glbFatal>>
argsortVars == <<abPc, abBy, abReverse, abPrepared, abResult>>
vars == <<scalarVars, listVars, concatVars, factoryVars, argsortVars>>

---------------------------------------------------------------------------
(* Bounds of the exploration *)

MaxSlots == 3
MaxRows == 3
MaxChunks == 2
MaxInner == 2
MaxFinish == 2
MaxSeries == 2
MaxColLen == 2

(* Value alphabets *)
NumVals  == {0, 1}
BoolVals == BOOLEAN
Chars    == {"a", "b"}
StrVals  == {<<>>, <<"a">>, <<"b">>, <<"a", "b">>}
Caps     == {0, 2}
ListStrVals == {<<>>, <<"a">>}
ConcatOpts == {<<>>, << <<"a">> >>, << <<"b">> >>}
Delimiters == {<<>>, <<"-">>}

None == <<>>
Some(v) == <<v>>
IsSome(o) == Len(o) = 1
Unwrap(o) == o[1]

Last(q) == q[Len(q)]

Kinds == {"Boolean", "Numeric", "Utf8"}

ValsOf(kind) ==
    CASE kind = "Boolean" -> BoolVals
      [] kind = "Numeric" -> NumVals
      [] kind = "Utf8"    -> StrVals

OptsOf(kind) == {None} \cup {Some(v) : v \in ValsOf(kind)}

\* T::Native: Default -- the raw value a null slot of a numeric array holds
NumDefault == 0
\* the raw bit a null slot of a boolean array holds
BoolDefault == FALSE

---------------------------------------------------------------------------
(* The growable arrays of the memory-layout library, as the builders use   *)
(* them: a value buffer and a validity bitmap grown one slot at a time.    *)

\* Primitive::<T>::with_capacity / BooleanPrimitive::with_capacity
Primitive_with_capacity(capacity) ==
    [values |-> <<>>, validity |-> <<>>, capacity |-> capacity]

\* a push that writes the value slot and marks every slot valid
Primitive_push_always_valid(arr, opt, default) ==
    [arr EXCEPT !.values   = Append(@, IF IsSome(opt) THEN Unwrap(opt) ELSE default),
                !.validity = Append(@, TRUE)]

\* a push that refuses to grow past the capacity hint
Primitive_push_within_capacity(arr, opt, default) ==
    IF Len(arr.values) >= arr.capacity THEN arr
    ELSE [arr EXCEPT !.values   = Append(@, IF IsSome(opt) THEN Unwrap(opt) ELSE default),
                     !.validity = Append(@, IsSome(opt))]

\* Primitive<T>::push(Option<T>): one value slot and one validity bit
Primitive_push(arr, opt, default) ==
    [arr EXCEPT !.values   = Append(@, IF IsSome(opt) THEN Unwrap(opt) ELSE default),
                !.validity = Append(@, IsSome(opt))]

\* Utf8Primitive::<i64>::with_capacities(capacity, bytes_capacity)
Utf8Primitive_with_capacities(capacity, bytes_capacity) ==
    [values |-> <<>>, offsets |-> <<0>>, validity |-> <<>>,
     capacity |-> capacity, bytes_capacity |-> bytes_capacity]

\* Utf8Primitive<i64>::push(Option<&str>): the bytes, the end offset, the bit
Utf8Primitive_push(arr, opt) ==
    LET bytes == IF IsSome(opt) THEN arr.values \o Unwrap(opt) ELSE arr.values
    IN  [arr EXCEPT !.values   = bytes,
                    !.offsets  = Append(@, Len(bytes)),
                    !.validity = Append(@, IsSome(opt))]

---------------------------------------------------------------------------
(* 4.1 / 4.2  Scalar builders *)

BooleanChunkedBuilder_new(capacity) ==
    [kind |-> "Boolean", array_builder |-> Primitive_with_capacity(capacity)]

PrimitiveChunkedBuilder_new(capacity) ==
    [kind |-> "Numeric", array_builder |-> Primitive_with_capacity(capacity)]

Utf8ChunkedBuilder_new(capacity, bytes_capacity) ==
    [kind |-> "Utf8",
     array_builder |-> Utf8Primitive_with_capacities(capacity, bytes_capacity),
     capacity |-> capacity]

Boolean_append_value(b, v) ==
    [b EXCEPT !.array_builder = Primitive_push(@, Some(v), BoolDefault)]

Boolean_append_null(b) ==
    [b EXCEPT !.array_builder = Primitive_push(@, None, BoolDefault)]

Primitive_append_value(b, v) ==
    [b EXCEPT !.array_builder = Primitive_push(@, Some(v), NumDefault)]

Primitive_append_null(b) ==
    [b EXCEPT !.array_builder = Primitive_push(@, None, NumDefault)]

Utf8_append_value(b, v) ==
    [b EXCEPT !.array_builder = Utf8Primitive_push(@, Some(v))]

Utf8_append_null(b) ==
    [b EXCEPT !.array_builder = Utf8Primitive_push(@, None)]

Utf8_append_option(b, opt) ==
    [b EXCEPT !.array_builder = Utf8Primitive_push(@, opt)]

(* The Cow-accepting string builder: a Cow<str> is a borrowed or an owned  *)
(* string; the builder wraps a Utf8ChunkedBuilder.                         *)
CowVals == {[tag |-> g, s |-> x] : g \in {"Borrowed", "Owned"}, x \in StrVals}

\* val.as_ref(): the string a Cow holds, borrowed or owned
as_ref(val) == val.s

Utf8ChunkedBuilderCow_new(capacity) ==
    [kind |-> "Utf8Cow", builder |-> Utf8ChunkedBuilder_new(capacity, capacity)]

\* an adapter that forwards owned strings only and turns a borrowed one into a null
Utf8ChunkedBuilderCow_append_value_owned_only(b, val) ==
    [b EXCEPT !.builder = IF val.tag = "Owned" THEN Utf8_append_value(@, as_ref(val))
                                               ELSE Utf8_append_null(@)]

Utf8ChunkedBuilderCow_append_value(b, val) ==
    [b EXCEPT !.builder = Utf8_append_value(@, as_ref(val))]

Utf8ChunkedBuilderCow_append_null(b) ==
    [b EXCEPT !.builder = Utf8_append_null(@)]

\* the builder's own append_value / append_null, by builder type
append_value(b, v) ==
    CASE b.kind = "Boolean" -> Boolean_append_value(b, v)
      [] b.kind = "Numeric" -> Primitive_append_value(b, v)
      [] b.kind = "Utf8"    -> Utf8_append_value(b, v)
      [] b.kind = "Utf8Cow" -> Utf8ChunkedBuilderCow_append_value(b, v)

append_null(b) ==
    CASE b.kind = "Boolean" -> Boolean_append_null(b)
      [] b.kind = "Numeric" -> Primitive_append_null(b)
      [] b.kind = "Utf8"    -> Utf8_append_null(b)
      [] b.kind = "Utf8Cow" -> Utf8ChunkedBuilderCow_append_null(b)

\* ChunkedBuilder::append_option, the trait's default method
ChunkedBuilder_append_option(b, opt_val) ==
    IF IsSome(opt_val) THEN append_value(b, Unwrap(opt_val))
                       ELSE append_null(b)

\* append_option as each builder type resolves it
append_option(b, opt) ==
    IF b.kind = "Utf8" THEN Utf8_append_option(b, opt)
                       ELSE ChunkedBuilder_append_option(b, opt)

\* a finish that hands out an empty second chunk after the accumulated array
finish_with_empty_tail(b) ==
    [dtype  |-> b.kind,
     chunks |-> << [values   |-> b.array_builder.values,
                    validity |-> b.array_builder.validity,
                    offsets  |-> IF b.kind = "Utf8" THEN b.array_builder.offsets
                                                    ELSE <<>>],
                   [values |-> <<>>, validity |-> <<>>,
                    offsets |-> IF b.kind = "Utf8" THEN <<0>> ELSE <<>>] >>]

\* finish: the accumulated array becomes the column's only chunk
finish(b) ==
    [dtype  |-> b.kind,
     chunks |-> << [values   |-> b.array_builder.values,
                    validity |-> b.array_builder.validity,
                    offsets  |-> IF b.kind = "Utf8" THEN b.array_builder.offsets
                                                    ELSE <<>>] >>]

(* Reading a finished column back, slot by slot: the validity bit decides  *)
(* whether a slot is null; a string slot is the bytes between its offsets. *)
ArrayGet(dtype, arr, i) ==
    IF ~arr.validity[i] THEN None
    ELSE IF dtype = "Utf8"
         THEN Some(SubSeq(arr.values, arr.offsets[i] + 1, arr.offsets[i + 1]))
         ELSE Some(arr.values[i])

ArrayToVec(dtype, arr) == [i \in 1..Len(arr.validity) |-> ArrayGet(dtype, arr, i)]

RECURSIVE ChunksToVec(_, _)
ChunksToVec(dtype, chunks) ==
    IF chunks = <<>> THEN <<>>
    ELSE ArrayToVec(dtype, Head(chunks)) \o ChunksToVec(dtype, Tail(chunks))

\* Vec::from(&ca)
ToVec(ca) == ChunksToVec(ca.dtype, ca.chunks)

\* Utf8ChunkedBuilderCow::finish: the wrapped builder's finish
Utf8ChunkedBuilderCow_finish(b) == finish(b.builder)

ScalarNewBuilders ==
    {BooleanChunkedBuilder_new(c) : c \in Caps}
    \cup {PrimitiveChunkedBuilder_new(c) : c \in Caps}
    \cup {Utf8ChunkedBuilder_new(c, bc) : c \in Caps, bc \in Caps}

ScalarAppendValue(v) ==
    /\ sbOut = <<>>
    /\ Len(sbFed) < MaxSlots
    /\ sb' = append_value(sb, v)
    /\ sbFed' = Append(sbFed, Some(v))
    /\ sbOps' = sbOps \cup {"append_value"}
    /\ UNCHANGED <<sbOut, listVars, concatVars, factoryVars, argsortVars>>

ScalarAppendNull ==
    /\ sbOut = <<>>
    /\ Len(sbFed) < MaxSlots
    /\ sb' = append_null(sb)
    /\ sbFed' = Append(sbFed, None)
    /\ sbOps' = sbOps \cup {"append_null"}
    /\ UNCHANGED <<sbOut, listVars, concatVars, factoryVars, argsortVars>>

ScalarAppendOption(opt) ==
    /\ sbOut = <<>>
    /\ Len(sbFed) < MaxSlots
    /\ sb' = append_option(sb, opt)
    /\ sbFed' = Append(sbFed, opt)
    /\ sbOps' = sbOps \cup {"append_option"}
    /\ UNCHANGED <<sbOut, listVars, concatVars, factoryVars, argsortVars>>

\* finish(self) consumes the builder: nothing can be called on it afterwards
ScalarFinish ==
    /\ sbOut = <<>>
    /\ sbOut' = <<finish(sb)>>
    /\ UNCHANGED <<sb, sbFed, sbOps, listVars, concatVars, factoryVars, argsortVars>>

(* The Cow-accepting builder's calls; sbFed keeps the strings handed over  *)
CowAppendValue(val) ==
    /\ sbOut = <<>>
    /\ Len(sbFed) < MaxSlots
    /\ sb' = append_value(sb, val)
    /\ sbFed' = Append(sbFed, Some(val.s))
    /\ sbOps' = sbOps \cup {"append_value"}
    /\ UNCHANGED <<sbOut, listVars, concatVars, factoryVars, argsortVars>>

CowAppendNull ==
    /\ sbOut = <<>>
    /\ Len(sbFed) < MaxSlots
    /\ sb' = append_null(sb)
    /\ sbFed' = Append(sbFed, None)
    /\ sbOps' = sbOps \cup {"append_null"}
    /\ UNCHANGED <<sbOut, listVars, concatVars, factoryVars, argsortVars>>

\* append_option is the trait's default method for this builder
CowAppendOption(opt_val) ==
    /\ sbOut = <<>>
    /\ Len(sbFed) < MaxSlots
    /\ sb' = append_option(sb, opt_val)
    /\ sbFed' = Append(sbFed, IF IsSome(opt_val) THEN Some(Unwrap(opt_val).s) ELSE None)
    /\ sbOps' = sbOps \cup {"append_option"}
    /\ UNCHANGED <<sbOut, listVars, concatVars, factoryVars, argsortVars>>

CowFinish ==
    /\ sbOut = <<>>
    /\ sbOut' = <<Utf8ChunkedBuilderCow_finish(sb)>>
    /\ UNCHANGED <<sb, sbFed, sbOps, listVars, concatVars, factoryVars, argsortVars>>

NextCow ==
    \/ \E val \in CowVals : CowAppendValue(val)
    \/ CowAppendNull
    \/ \E opt_val \in {None} \cup {Some(val) : val \in CowVals} : CowAppendOption(opt_val)
    \/ CowFinish

NextScalar ==
    \/ \E v \in ValsOf(sb.kind) : ScalarAppendValue(v)
    \/ ScalarAppendNull
    \/ \E opt \in OptsOf(sb.kind) : ScalarAppendOption(opt)
    \/ ScalarFinish

---------------------------------------------------------------------------
(* Sub-columns: a finished column handed to a list builder.  It is a       *)
(* sequence of physical chunks; a chunk is a run of raw values with one    *)
(* validity bit per slot.  A string chunk holds one string per slot.       *)

StrDefault == <<>>

DefaultOf(kind) ==
    CASE kind = "Boolean" -> BoolDefault
      [] kind = "Numeric" -> NumDefault
      [] kind = "Utf8"    -> StrDefault

ListValsOf(kind) == IF kind = "Utf8" THEN ListStrVals ELSE ValsOf(kind)

SlotsOf(kind) ==
    {[v |-> x, valid |-> TRUE] : x \in ListValsOf(kind)}
    \cup {[v |-> DefaultOf(kind), valid |-> FALSE]}

SeqsUpTo(S, n) == UNION {[1..k -> S] : k \in 0..n}

ChunkOf(q) ==
    [values   |-> [i \in 1..Len(q) |-> q[i].v],
     validity |-> [i \in 1..Len(q) |-> q[i].valid]]

ChunksOf(kind) == {ChunkOf(q) : q \in SeqsUpTo(SlotsOf(kind), MaxInner)}

RECURSIVE TotalLen(_)
TotalLen(chunks) ==
    IF chunks = <<>> THEN 0 ELSE Len(Head(chunks).values) + TotalLen(Tail(chunks))

\* every sub-column of the element type: 1..MaxChunks chunks, at most MaxInner slots in all
SubColumns ==
    [kind \in Kinds |->
        {[dtype |-> kind, chunks |-> cs] :
            cs \in {x \in SeqsUpTo(ChunksOf(kind), MaxChunks) :
                        Len(x) >= 1 /\ TotalLen(x) <= MaxInner}}]

\* ... and those of at most n slots
SubColumnsUpTo ==
    [kind \in Kinds |->
        [n \in 0..MaxInner |-> {c \in SubColumns[kind] : TotalLen(c.chunks) <= n}]]

\* Series::len
len(s) == TotalLen(s.chunks)

RECURSIVE NullsIn(_)
NullsIn(chunks) ==
    IF chunks = <<>> THEN 0
    ELSE Cardinality({i \in 1..Len(Head(chunks).validity) : ~Head(chunks).validity[i]})
         + NullsIn(Tail(chunks))

\* Series::null_count: the nulls of all chunks together
null_count(s) == NullsIn(s.chunks)

\* how many of its chunks hold at least one slot
NonEmptyChunks(c) == Cardinality({i \in 1..Len(c.chunks) : Len(c.chunks[i].values) > 0})

\* the logical slots of a sub-column, in order, as its iterator yields them
Slots(s) == ChunksToVec("", s.chunks)

---------------------------------------------------------------------------
(* The nested array builder of the memory-layout library: an inner values  *)
(* sink, and one offset and one validity bit per list row.                 *)

ListPrimitive_with_capacities(capacity, values_capacity) ==
    [values   |-> [values |-> <<>>, validity |-> <<>>],
     offsets  |-> <<0>>,
     validity |-> <<>>,
     capacity |-> capacity,
     values_capacity |-> values_capacity]

\* a variant that records the length of the row in place of its end
ListPrimitive_append_row_length(lp, is_valid) ==
    [lp EXCEPT !.offsets  = Append(@, Len(lp.values.values) - lp.offsets[Len(lp.offsets)]),
               !.validity = Append(@, is_valid)]

\* builder.append(is_valid) / builder.push(...): close the row at the running offset
ListPrimitive_append(lp, is_valid) ==
    [lp EXCEPT !.offsets  = Append(@, Len(lp.values.values)),
               !.validity = Append(@, is_valid)]

\* builder.values().append_value(v)
values_append_value(inner, v) ==
    [inner EXCEPT !.values = Append(@, v), !.validity = Append(@, TRUE)]

\* builder.values().append_null()
values_append_null(inner, default) ==
    [inner EXCEPT !.values = Append(@, default), !.validity = Append(@, FALSE)]

\* builder.values().append_slice(v): the raw values, every slot valid
values_append_slice(inner, v) ==
    [inner EXCEPT !.values   = @ \o v,
                  !.validity = @ \o [i \in 1..Len(v) |-> TRUE]]

\* builder.finish(): the array built so far
ListPrimitive_finish(lp) ==
    [values |-> lp.values, offsets |-> lp.offsets, validity |-> lp.validity]

\* ... and the builder it leaves behind, empty again
ListPrimitive_reset(lp) ==
    [lp EXCEPT !.values   = [values |-> <<>>, validity |-> <<>>],
               !.offsets  = <<0>>,
               !.validity = <<>>]

---------------------------------------------------------------------------
(* 4.3  List builders *)

ListPrimitiveChunkedBuilder_new(capacity, values_capacity) ==
    [kind |-> "Numeric",
     builder |-> ListPrimitive_with_capacities(capacity, values_capacity)]

ListUtf8ChunkedBuilder_new(capacity, values_capacity) ==
    [kind |-> "Utf8",
     builder |-> ListPrimitive_with_capacities(capacity, values_capacity)]

ListBooleanChunkedBuilder_new(capacity, values_capacity) ==
    [kind |-> "Boolean",
     builder |-> ListPrimitive_with_capacities(capacity, values_capacity)]

\* the per-element branch: append_value or append_null by the slot's validity bit
RECURSIVE AppendElements(_, _, _, _)
AppendElements(inner, a, idx, default) ==
    IF idx > Len(a.values) THEN inner
    ELSE AppendElements(
             IF a.validity[idx] THEN values_append_value(inner, a.values[idx])
                                ELSE values_append_null(inner, default),
             a, idx + 1, default)

\* the bulk branch taken whatever the null count
ListPrimitive_append_chunk_always_bulk(inner, a, nulls) ==
    values_append_slice(inner, a.values)

\* one chunk of the sub-column: bulk when the whole sub-column has no nulls
ListPrimitive_append_chunk(inner, a, nulls) ==
    IF nulls = 0 THEN values_append_slice(inner, a.values)
                 ELSE AppendElements(inner, a, 1, NumDefault)

\* a loop that stops after the first chunk
ListPrimitive_append_chunks_first_only(inner, arrays, nulls) ==
    IF arrays = <<>> THEN inner
    ELSE ListPrimitive_append_chunk(inner, Head(arrays), nulls)

\* for a in arrays { ... }
RECURSIVE ListPrimitive_append_chunks(_, _, _)
ListPrimitive_append_chunks(inner, arrays, nulls) ==
    IF arrays = <<>> THEN inner
    ELSE ListPrimitive_append_chunks(
             ListPrimitive_append_chunk(inner, Head(arrays), nulls),
             Tail(arrays), nulls)

\* a builder-wide mode: the branch is chosen from the nulls the inner sink
\* already holds instead of the nulls of the sub-column at hand
ListPrimitive_append_series_builder_mode(b, s) ==
    LET inner == ListPrimitive_append_chunks(b.builder.values, s.chunks,
                                             NullsIn(<<b.builder.values>>))
    IN  [b EXCEPT !.builder = ListPrimitive_append([@ EXCEPT !.values = inner], TRUE)]

ListPrimitive_append_series(b, s) ==
    LET inner == ListPrimitive_append_chunks(b.builder.values, s.chunks, null_count(s))
    IN  [b EXCEPT !.builder = ListPrimitive_append([@ EXCEPT !.values = inner], TRUE)]

ListPrimitive_append_null(b) ==
    [b EXCEPT !.builder = ListPrimitive_append(@, FALSE)]

\* a variant of append_slice whose None arm closes a valid, empty row
ListPrimitive_append_slice_none_as_empty(b, opt_v) ==
    IF IsSome(opt_v)
    THEN [b EXCEPT !.builder =
             ListPrimitive_append(
                 [@ EXCEPT !.values = values_append_slice(@, Unwrap(opt_v))], TRUE)]
    ELSE [b EXCEPT !.builder = ListPrimitive_append(@, TRUE)]

\* ListPrimitiveChunkedBuilder::append_slice (inherent):
\* Some(v) => values().append_slice(v), push(true);  None => append(false)
ListPrimitive_append_slice(b, opt_v) ==
    IF IsSome(opt_v)
    THEN [b EXCEPT !.builder =
             ListPrimitive_append(
                 [@ EXCEPT !.values = values_append_slice(@, Unwrap(opt_v))], TRUE)]
    ELSE [b EXCEPT !.builder = ListPrimitive_append(@, FALSE)]

\* ListPrimitiveChunkedBuilder::append_null (inherent): builder.append(false)
ListPrimitive_inherent_append_null(b) ==
    [b EXCEPT !.builder = ListPrimitive_append(@, FALSE)]

ListPrimitive_append_opt_series(b, opt_s) ==
    IF IsSome(opt_s) THEN ListPrimitive_append_series(b, Unwrap(opt_s))
                     ELSE [b EXCEPT !.builder = ListPrimitive_append(@, FALSE)]

\* for s in ca { match s { Some(s) => append_value(s), None => append_null() } }
RECURSIVE AppendOptions(_, _, _)
AppendOptions(inner, opts, default) ==
    IF opts = <<>> THEN inner
    ELSE AppendOptions(
             IF IsSome(Head(opts)) THEN values_append_value(inner, Unwrap(Head(opts)))
                                   ELSE values_append_null(inner, default),
             Tail(opts), default)

ListUtf8_append_series(b, s) ==
    LET inner == AppendOptions(b.builder.values, Slots(s), StrDefault)
    IN  [b EXCEPT !.builder = ListPrimitive_append([@ EXCEPT !.values = inner], TRUE)]

ListUtf8_append_null(b) ==
    LET inner == values_append_null(b.builder.values, StrDefault)
    IN  [b EXCEPT !.builder = ListPrimitive_append([@ EXCEPT !.values = inner], TRUE)]

ListUtf8_append_opt_series(b, opt_s) ==
    IF IsSome(opt_s) THEN ListUtf8_append_series(b, Unwrap(opt_s))
                     ELSE [b EXCEPT !.builder = ListPrimitive_append(@, FALSE)]

ListBoolean_append_series(b, s) ==
    LET inner == AppendOptions(b.builder.values, Slots(s), BoolDefault)
    IN  [b EXCEPT !.builder = ListPrimitive_append([@ EXCEPT !.values = inner], TRUE)]

ListBoolean_append_null(b) ==
    LET inner == values_append_null(b.builder.values, BoolDefault)
    IN  [b EXCEPT !.builder = ListPrimitive_append([@ EXCEPT !.values = inner], TRUE)]

ListBoolean_append_opt_series(b, opt_s) ==
    IF IsSome(opt_s) THEN ListBoolean_append_series(b, Unwrap(opt_s))
                     ELSE [b EXCEPT !.builder = ListPrimitive_append(@, FALSE)]

\* ListBuilderTrait, by builder variant
list_append_series(b, s) ==
    CASE b.kind = "Numeric" -> ListPrimitive_append_series(b, s)
      [] b.kind = "Utf8"    -> ListUtf8_append_series(b, s)
      [] b.kind = "Boolean" -> ListBoolean_append_series(b, s)

list_append_null(b) ==
    CASE b.kind = "Numeric" -> ListPrimitive_append_null(b)
      [] b.kind = "Utf8"    -> ListUtf8_append_null(b)
      [] b.kind = "Boolean" -> ListBoolean_append_null(b)

list_append_opt_series(b, opt_s) ==
    CASE b.kind = "Numeric" -> ListPrimitive_append_opt_series(b, opt_s)
      [] b.kind = "Utf8"    -> ListUtf8_append_opt_series(b, opt_s)
      [] b.kind = "Boolean" -> ListBoolean_append_opt_series(b, opt_s)

\* finish_list_builder!: the array the inner builder hands out, as the only chunk
finish_list_builder(b) ==
    [dtype |-> "List", inner |-> b.kind, chunks |-> <<ListPrimitive_finish(b.builder)>>]

(* Reading a list column back: row i is null when its validity bit is 0,   *)
(* else the inner slots between its two offsets.                           *)
ListArrayGet(arr, i) ==
    IF ~arr.validity[i] THEN None
    ELSE Some([k \in 1..(arr.offsets[i + 1] - arr.offsets[i]) |->
                   ArrayGet("", arr.values, arr.offsets[i] + k)])

ListArrayToVec(arr) == [i \in 1..Len(arr.validity) |-> ListArrayGet(arr, i)]

RECURSIVE ListChunksToVec(_)
ListChunksToVec(chunks) ==
    IF chunks = <<>> THEN <<>>
    ELSE ListArrayToVec(Head(chunks)) \o ListChunksToVec(Tail(chunks))

ListToVec(ca) == ListChunksToVec(ca.chunks)

ListNewBuilders ==
    {ListPrimitiveChunkedBuilder_new(10, 5),
     ListUtf8ChunkedBuilder_new(10, 10),
     ListBooleanChunkedBuilder_new(10, 5)}

\* the exploration stops appending after MaxRows rows, and after finish,
\* and keeps at most MaxInner slots in the inner values sink
CanAppend == lbOut = <<>> /\ Len(lbFed) < MaxRows

Fits(b) == Len(b.builder.values.values) <= MaxInner

\* the sub-columns that still fit
Fitting ==
    IF Fits(lb) THEN SubColumnsUpTo[lb.kind][MaxInner - Len(lb.builder.values.values)]
                ELSE {}

ListAppendNull ==
    /\ CanAppend
    /\ Fits(list_append_null(lb))
    /\ lb' = list_append_null(lb)
    /\ lbFed' = Append(lbFed, None)
    /\ lbOps' = lbOps \cup {"append_null"}
    /\ lbLastOp' = "append_null"
    /\ lbLastArg' = None
    /\ UNCHANGED <<lbOut, scalarVars, concatVars, factoryVars, argsortVars>>

ListAppendSeries(c) ==
    /\ CanAppend
    /\ Fits(list_append_series(lb, c))
    /\ lb' = list_append_series(lb, c)
    /\ lbFed' = Append(lbFed, Some(Slots(c)))
    /\ lbOps' = lbOps \cup {"append_series"}
    /\ lbLastOp' = "append_series"
    /\ lbLastArg' = Some(c)
    /\ UNCHANGED <<lbOut, scalarVars, concatVars, factoryVars, argsortVars>>

ListAppendOptSeries(opt_s) ==
    /\ CanAppend
    /\ Fits(list_append_opt_series(lb, opt_s))
    /\ lb' = list_append_opt_series(lb, opt_s)
    /\ lbFed' = Append(lbFed, IF IsSome(opt_s) THEN Some(Slots(Unwrap(opt_s))) ELSE None)
    /\ lbOps' = lbOps \cup {"append_opt_series"}
    /\ lbLastOp' = "append_opt_series"
    /\ lbLastArg' = opt_s
    /\ UNCHANGED <<lbOut, scalarVars, concatVars, factoryVars, argsortVars>>

\* finish(&mut self): no guard; hands out the array and leaves the builder empty
ListFinish ==
    /\ Len(lbOut) < MaxFinish
    /\ lbOut' = Append(lbOut, finish_list_builder(lb))
    /\ lb' = [lb EXCEPT !.builder = ListPrimitive_reset(@)]
    /\ lbOps' = lbOps \cup {"finish"}
    /\ lbLastOp' = "finish"
    /\ lbLastArg' = None
    /\ UNCHANGED <<lbFed, scalarVars, concatVars, factoryVars, argsortVars>>

NextList ==
    \/ ListAppendNull
    \/ CanAppend /\ \E c \in Fitting : ListAppendSeries(c)
    \/ CanAppend /\ \E opt_s \in {None} \cup {Some(c) : c \in Fitting} :
                        ListAppendOptSeries(opt_s)
    \/ ListFinish

---------------------------------------------------------------------------
(* append_series on a sub-column of another element type.  The typed view *)
(* of the sub-column is taken first; taking it fails for another type, and *)
(* the failure ends the call where it stands.                              *)

\* a.get_values::<T>(): the raw values of a chunk whose element type is T
get_values(dtype, a, T) ==
    IF dtype = T THEN [ok |-> TRUE, values |-> a.values] ELSE [ok |-> FALSE]

\* s.utf8(): the string view of a sub-column, an error for another type
Series_utf8(s) ==
    IF s.dtype = "Utf8" THEN [ok |-> TRUE, ca |-> s] ELSE [ok |-> FALSE, err |-> "SchemaMisMatch"]

\* s.bool(): the boolean view of a sub-column, an error for another type
Series_bool(s) ==
    IF s.dtype = "Boolean" THEN [ok |-> TRUE, ca |-> s] ELSE [ok |-> FALSE, err |-> "SchemaMisMatch"]

\* the chunks the loop handles before get_values fails, and whether it fails
FirstFailing(s, T) ==
    LET bad == {i \in 1..Len(s.chunks) : ~get_values(s.dtype, s.chunks[i], T).ok}
    IN  IF bad = {} THEN 0 ELSE CHOOSE i \in bad : \A j \in bad : i <= j

\* ListPrimitiveChunkedBuilder::append_series with get_values in the loop:
\* a failure leaves what the earlier chunks wrote, and no row is closed
ListPrimitive_append_series_checked(b, s) ==
    LET k == FirstFailing(s, "Numeric")
    IN  IF k = 0 THEN [ok |-> TRUE, b |-> ListPrimitive_append_series(b, s)]
        ELSE [ok |-> FALSE,
              b  |-> [b EXCEPT !.builder.values =
                         ListPrimitive_append_chunks(@, SubSeq(s.chunks, 1, k - 1),
                                                     null_count(s))]]

\* a variant without the unwrap of the typed view: any sub-column is taken
\* as a string column
ListUtf8_append_series_unchecked(b, s) ==
    [ok |-> TRUE, b |-> ListUtf8_append_series(b, s)]

\* ListUtf8ChunkedBuilder::append_series: let ca = s.utf8().unwrap() comes first
ListUtf8_append_series_checked(b, s) ==
    IF Series_utf8(s).ok THEN [ok |-> TRUE, b |-> ListUtf8_append_series(b, s)]
                         ELSE [ok |-> FALSE, b |-> b]

\* ListBooleanChunkedBuilder::append_series: let ca = s.bool().unwrap() comes first
ListBoolean_append_series_checked(b, s) ==
    IF Series_bool(s).ok THEN [ok |-> TRUE, b |-> ListBoolean_append_series(b, s)]
                         ELSE [ok |-> FALSE, b |-> b]

list_append_series_checked(b, s) ==
    CASE b.kind = "Numeric" -> ListPrimitive_append_series_checked(b, s)
      [] b.kind = "Utf8"    -> ListUtf8_append_series_checked(b, s)
      [] b.kind = "Boolean" -> ListBoolean_append_series_checked(b, s)

\* sub-columns of the other element types: two chunks of one valid slot each
MismatchSamples ==
    [kind \in Kinds |->
        UNION {{[dtype |-> k,
                 chunks |-> <<ChunkOf(<<[v |-> x, valid |-> TRUE]>>),
                              ChunkOf(<<[v |-> x, valid |-> TRUE]>>)>>] :
                    x \in ListValsOf(k)} : k \in Kinds \ {kind}}]

\* append_series ends in a panic: the builder is left as the call left it
ListAppendSeriesRejected(c) ==
    /\ CanAppend
    /\ ~list_append_series_checked(lb, c).ok
    /\ lb' = list_append_series_checked(lb, c).b
    /\ lbLastOp' = "panic"
    /\ lbLastArg' = Some(c)
    /\ UNCHANGED <<lbFed, lbOps, lbOut, scalarVars, concatVars, factoryVars, argsortVars>>

\* the list builder's calls with sub-columns of any element type; nothing
\* is called after a panic
NextListTyped ==
    \/ lbLastOp # "panic" /\ NextList
    \/ lbLastOp # "panic" /\ CanAppend
           /\ \E c \in MismatchSamples[lb.kind] : ListAppendSeriesRejected(c)

---------------------------------------------------------------------------
(* The inherent methods of the numeric list builder, next to the trait's *)

\* the value slices that still fit
FittingSlices ==
    IF Fits(lb) THEN SeqsUpTo(NumVals, MaxInner - Len(lb.builder.values.values))
                ELSE {}

ListAppendSlice(opt_v) ==
    /\ CanAppend
    /\ lb' = ListPrimitive_append_slice(lb, opt_v)
    /\ lbFed' = Append(lbFed, IF IsSome(opt_v)
                                THEN Some([i \in 1..Len(Unwrap(opt_v)) |->
                                              Some(Unwrap(opt_v)[i])])
                                ELSE None)
    /\ lbOps' = lbOps \cup {"append_slice"}
    /\ lbLastOp' = "append_slice"
    /\ lbLastArg' = None
    /\ UNCHANGED <<lbOut, scalarVars, concatVars, factoryVars, argsortVars>>

ListInherentAppendNull ==
    /\ CanAppend
    /\ lb' = ListPrimitive_inherent_append_null(lb)
    /\ lbFed' = Append(lbFed, None)
    /\ lbOps' = lbOps \cup {"inherent_append_null"}
    /\ lbLastOp' = "inherent_append_null"
    /\ lbLastArg' = None
    /\ UNCHANGED <<lbOut, scalarVars, concatVars, factoryVars, argsortVars>>

\* both families of calls on one numeric builder, in any order
NextListInherent ==
    \/ NextList
    \/ CanAppend /\ \E opt_v \in {None} \cup {Some(v) : v \in FittingSlices} :
                        ListAppendSlice(opt_v)
    \/ ListInherentAppendNull

---------------------------------------------------------------------------
(* 4.4  Builder factory: from an element type known at run time to a list *)
(* builder behind ListBuilderTrait.                                        *)

NumericTypes == {"Int32", "Float64"}
DataTypes == NumericTypes \cup {"Utf8", "Boolean", "List", "Categorical"}
FactoryCaps == {1, 2}

\* get_primitive_builder!($type): ListPrimitiveChunkedBuilder::new(&name, value_capacity).
\* The call names neither $type nor a third argument, so it fixes neither the
\* element type of the builder nor its inner values capacity.
get_primitive_builder(value_capacity) ==
    {[elem |-> T, builder |-> ListPrimitiveChunkedBuilder_new(value_capacity, vc)] :
        T \in NumericTypes, vc \in FactoryCaps}

\* get_bool_builder!()
get_bool_builder(value_capacity, list_capacity) ==
    ListBooleanChunkedBuilder_new(list_capacity, value_capacity)

\* get_utf8_builder!()
get_utf8_builder(value_capacity, list_capacity) ==
    ListUtf8ChunkedBuilder_new(list_capacity, 5 * value_capacity)

\* match_arrow_data_type_apply_macro!(dt, macro, macro_utf8, macro_bool): the
\* arm taken for an element type; any type outside the closed set is fatal
match_arrow_data_type_apply_macro(dt) ==
    IF dt \in NumericTypes THEN "macro"
    ELSE IF dt = "Utf8" THEN "macro_utf8"
    ELSE IF dt = "Boolean" THEN "macro_bool"
    ELSE "fatal"

GetListBuilder(dt, value_capacity, list_capacity) ==
    /\ glbCall = None
    /\ glbCall' = Some([dt |-> dt, value_capacity |-> value_capacity,
                        list_capacity |-> list_capacity])
    /\ LET arm == match_arrow_data_type_apply_macro(dt)
       IN  IF arm = "macro"
           THEN /\ \E r \in get_primitive_builder(value_capacity) :
                       /\ lb' = r.builder
                       /\ glbElem' = Some(r.elem)
                /\ UNCHANGED glbFatal
           ELSE IF arm = "macro_utf8"
           THEN /\ lb' = get_utf8_builder(value_capacity, list_capacity)
                /\ UNCHANGED <<glbElem, glbFatal>>
           ELSE IF arm = "macro_bool"
           THEN /\ lb' = get_bool_builder(value_capacity, list_capacity)
                /\ UNCHANGED <<glbElem, glbFatal>>
           ELSE /\ glbFatal' = TRUE
                /\ UNCHANGED <<lb, glbElem>>
    /\ UNCHANGED <<lbFed, lbOps, lbLastOp, lbLastArg, lbOut,
                   scalarVars, concatVars, argsortVars>>

\* the factory call, then the returned builder used through ListBuilderTrait
NextFactory ==
    \/ glbCall = None /\ \E dt \in DataTypes, vc \in FactoryCaps, lc \in FactoryCaps :
                             GetListBuilder(dt, vc, lc)
    \/ lb.kind \in Kinds /\ NextList

---------------------------------------------------------------------------
(* 4.5  Row-wise string concatenation.  An input column is the sequence of *)
(* its optional strings.  concat_str is followed through its stages: the   *)
(* empty check and the broadcast, the length check with the construction   *)
(* of the iterators and of the output builder, one step per output row,    *)
(* and the final finish.                                                   *)

Ok(ca) == [ok |-> TRUE, ca |-> ca]
Err(kind) == [ok |-> FALSE, err |-> kind]

Max(S) == CHOOSE x \in S : \A y \in S : y <= x

\* ca.expand_at_index(0, len): the single value, len times
expand_at_index(ca, index, length) == [i \in 1..length |-> ca[index + 1]]

\* a variant that leaves a length-1 input as it is
broadcast_without_expansion(ca, length) == ca

\* the broadcast of one input: if ca.len() == 1 && len > 1 { expand }
broadcast(ca, length) ==
    IF Len(ca) = 1 /\ length > 1 THEN expand_at_index(ca, 0, length) ELSE ca

\* ca.get_values_size(): the bytes of all its strings
RECURSIVE get_values_size(_)
get_values_size(ca) ==
    IF ca = <<>> THEN 0
    ELSE (IF IsSome(Head(ca)) THEN Len(Unwrap(Head(ca))) ELSE 0) + get_values_size(Tail(ca))

RECURSIVE SumSizes(_)
SumSizes(cas) ==
    IF cas = <<>> THEN 0 ELSE get_values_size(Head(cas)) + SumSizes(Tail(cas))

\* match ca.len() { 1 => Value(ca.get(0)), _ => Column(ca.into_iter()) }
make_iter(ca) ==
    IF Len(ca) = 1 THEN [tag |-> "Value", val |-> ca[1], ca |-> <<>>, pos |-> 0]
                   ELSE [tag |-> "Column", val |-> None, ca |-> ca, pos |-> 0]

\* IterBroadCast::next: None when a column iterator is exhausted
IterBroadCast_next(it) ==
    IF it.tag = "Value" THEN [item |-> Some(it.val), it |-> it]
    ELSE IF it.pos < Len(it.ca)
         THEN [item |-> Some(it.ca[it.pos + 1]), it |-> [it EXCEPT !.pos = @ + 1]]
         ELSE [item |-> None, it |-> it]

\* a closure that pushes the delimiter after every source instead of before
\* every source but the first
concat_source_trailing_delimiter(st, i, delimiter) ==
    LET nx   == IterBroadCast_next(st.iters[i + 1])
        its  == [st.iters EXCEPT ![i + 1] = nx.it]
    IN  IF ~IsSome(nx.item)
        THEN [st EXCEPT !.iters = its, !.unreachable = TRUE]
        ELSE IF IsSome(Unwrap(nx.item))
             THEN [st EXCEPT !.buf = @ \o Unwrap(Unwrap(nx.item)) \o delimiter,
                             !.iters = its]
             ELSE [st EXCEPT !.buf = @ \o delimiter, !.iters = its, !.has_null = TRUE]

\* a closure that leaves the remaining sources of a row where they are once
\* a null was seen
concat_source_stop_at_null(st, i, delimiter) ==
    LET buf1 == IF i > 0 THEN st.buf \o delimiter ELSE st.buf
        nx   == IterBroadCast_next(st.iters[i + 1])
        its  == [st.iters EXCEPT ![i + 1] = nx.it]
    IN  IF st.has_null THEN st
        ELSE IF ~IsSome(nx.item)
        THEN [st EXCEPT !.buf = buf1, !.iters = its, !.unreachable = TRUE]
        ELSE IF IsSome(Unwrap(nx.item))
             THEN [st EXCEPT !.buf = buf1 \o Unwrap(Unwrap(nx.item)), !.iters = its]
             ELSE [st EXCEPT !.buf = buf1, !.iters = its, !.has_null = TRUE]

\* the closure of iters.iter_mut().enumerate().for_each, for source i (0-based)
concat_source(st, i, delimiter) ==
    LET buf1 == IF i > 0 THEN st.buf \o delimiter ELSE st.buf
        nx   == IterBroadCast_next(st.iters[i + 1])
        its  == [st.iters EXCEPT ![i + 1] = nx.it]
    IN  IF ~IsSome(nx.item)
        THEN [st EXCEPT !.buf = buf1, !.iters = its, !.unreachable = TRUE]
        ELSE IF IsSome(Unwrap(nx.item))
             THEN [st EXCEPT !.buf = buf1 \o Unwrap(Unwrap(nx.item)), !.iters = its]
             ELSE [st EXCEPT !.buf = buf1, !.iters = its, !.has_null = TRUE]

\* the for_each over all sources of one row; it stops where unreachable!() panics
RECURSIVE concat_sources(_, _, _)
concat_sources(st, i, delimiter) ==
    IF i >= Len(st.iters) \/ st.unreachable THEN st
    ELSE concat_sources(concat_source(st, i, delimiter), i + 1, delimiter)

ConcatColumns == SeqsUpTo(ConcatOpts, MaxColLen)
ConcatInputs == SeqsUpTo(ConcatColumns, MaxSeries)

\* a variant that takes the output length from the first input
max_len_of_first(s) == Len(s[1])

\* let len = s.iter().map(|s| s.len()).max().unwrap()
max_len(s) == Max({Len(s[j]) : j \in 1..Len(s)})

\* entry: the empty check, len, and the cast-and-broadcast of every input
ConcatStrCall(s, delimiter) ==
    /\ csPc = "idle"
    /\ csS' = s
    /\ csDelim' = delimiter
    /\ IF s = <<>>
       THEN /\ csResult' = Some(Err("NoData"))
            /\ csPc' = "done"
            /\ UNCHANGED <<csLen, csCas>>
       ELSE /\ csLen' = max_len(s)
            /\ csCas' = [j \in 1..Len(s) |-> broadcast(s[j], csLen')]
            /\ csPc' = "validate"
            /\ UNCHANGED csResult
    /\ UNCHANGED <<csIters, csBuilder, csBuf, csRow, scalarVars, listVars, factoryVars, argsortVars>>

\* the output builder constructed ahead of the length check
ConcatStrValidate_builder_first ==
    /\ csPc = "validate"
    /\ csBuilder' = Some(Utf8ChunkedBuilder_new(csLen, SumSizes(csCas)))
    /\ IF ~(\A j \in 1..Len(csS) : Len(csS[j]) = 1 \/ Len(csS[j]) = csLen)
       THEN /\ csResult' = Some(Err("ValueError"))
            /\ csPc' = "done"
            /\ UNCHANGED <<csIters, csBuf>>
       ELSE /\ csIters' = [j \in 1..Len(csCas) |-> make_iter(csCas[j])]
            /\ csBuf' = <<>>
            /\ csPc' = "rows"
            /\ UNCHANGED csResult
    /\ UNCHANGED <<csS, csDelim, csLen, csCas, csRow, scalarVars, listVars, factoryVars, argsortVars>>

\* the length check; then iters, bytes_cap, the output builder and the scratch buffer
ConcatStrValidate ==
    /\ csPc = "validate"
    /\ IF ~(\A j \in 1..Len(csS) : Len(csS[j]) = 1 \/ Len(csS[j]) = csLen)
       THEN /\ csResult' = Some(Err("ValueError"))
            /\ csPc' = "done"
            /\ UNCHANGED <<csIters, csBuilder, csBuf>>
       ELSE /\ csIters' = [j \in 1..Len(csCas) |-> make_iter(csCas[j])]
            /\ csBuilder' = Some(Utf8ChunkedBuilder_new(csLen, SumSizes(csCas)))
            /\ csBuf' = <<>>
            /\ csPc' = "rows"
            /\ UNCHANGED csResult
    /\ UNCHANGED <<csS, csDelim, csLen, csCas, csRow, scalarVars, listVars, factoryVars, argsortVars>>

\* a variant that leaves the text in the buffer
truncate_nothing(buf, new_len) == buf

\* buf.truncate(new_len): the first new_len characters, all of a shorter text
truncate(buf, new_len) ==
    IF new_len < Len(buf) THEN SubSeq(buf, 1, new_len) ELSE buf

\* one pass of for _ in 0..len: all sources, the append, buf.truncate(0)
ConcatStrRow ==
    /\ csPc = "rows"
    /\ csRow < csLen
    /\ LET st == concat_sources([buf |-> csBuf, iters |-> csIters,
                                 has_null |-> FALSE, unreachable |-> FALSE],
                                0, csDelim)
       IN  IF st.unreachable
           THEN /\ csResult' = Some(Err("unreachable"))
                /\ csPc' = "done"
                /\ csIters' = st.iters
                /\ csBuf' = st.buf
                /\ UNCHANGED <<csBuilder, csRow>>
           ELSE /\ csBuilder' = Some(IF st.has_null
                                     THEN Utf8_append_null(Unwrap(csBuilder))
                                     ELSE Utf8_append_value(Unwrap(csBuilder), st.buf))
                /\ csIters' = st.iters
                /\ csBuf' = truncate(st.buf, 0)
                /\ csRow' = csRow + 1
                /\ UNCHANGED <<csResult, csPc>>
    /\ UNCHANGED <<csS, csDelim, csLen, csCas, scalarVars, listVars, factoryVars, argsortVars>>

\* Ok(builder.finish())
ConcatStrFinish ==
    /\ csPc = "rows"
    /\ csRow = csLen
    /\ csResult' = Some(Ok(finish(Unwrap(csBuilder))))
    /\ csPc' = "done"
    /\ UNCHANGED <<csS, csDelim, csLen, csCas, csIters, csBuilder, csBuf, csRow,
                   scalarVars, listVars, factoryVars, argsortVars>>

NextConcat ==
    \/ csPc = "idle" /\ \E s \in ConcatInputs, delimiter \in Delimiters :
                            ConcatStrCall(s, delimiter)
    \/ ConcatStrValidate
    \/ ConcatStrRow
    \/ ConcatStrFinish

---------------------------------------------------------------------------
(* argsort_by: the indexes that would sort the rows by several columns.    *)
(* A column is the sequence of its values; all columns of one call have    *)
(* the same number of rows.                                                *)

SortVals == {0, 1}

ArgsortColumns == UNION {SeqsUpTo([1..n -> SortVals], MaxSeries) : n \in 0..MaxColLen}
ArgsortFlags == SeqsUpTo(BOOLEAN, MaxSeries)

\* prepare_argsort(by.to_vec(), reverse...): the first column, the other
\* columns and the flags; there is no first column to take from an empty list
prepare_argsort(columns, reverse) ==
    IF columns = <<>> THEN [ok |-> FALSE]
    ELSE [ok |-> TRUE, first |-> Head(columns), by |-> Tail(columns), reverse |-> reverse]

\* row i comes before row j: the first column decides until duplicates are
\* found, then the next column, and so on; equal rows keep their order
Precedes(cols, reverse, i, j) ==
    \/ \E c \in 1..Len(cols) :
           /\ \A e \in 1..(c - 1) : cols[e][i] = cols[e][j]
           /\ IF reverse[c] THEN cols[c][i] > cols[c][j] ELSE cols[c][i] < cols[c][j]
    \/ (\A c \in 1..Len(cols) : cols[c][i] = cols[c][j]) /\ i < j

\* first.argsort_multiple(&by, &reverse): 0-based row indexes in sorted order
argsort_multiple(first, by, reverse) ==
    LET cols == <<first>> \o by
        n    == Len(first)
    IN  [k \in 1..n |->
            (CHOOSE i \in 1..n :
                 Cardinality({j \in 1..n : Precedes(cols, reverse, j, i)}) = k - 1) - 1]

\* a variant that goes on to the preparation without the length check
ArgsortByCall_unchecked(by, reverse) ==
    /\ abPc = "idle"
    /\ abBy' = by
    /\ abReverse' = reverse
    /\ abPc' = "prepare"
    /\ UNCHANGED <<abPrepared, abResult, scalarVars, listVars, concatVars, factoryVars>>

\* entry: if by.len() != reverse.len() { return Err(ValueError) }
ArgsortByCall(by, reverse) ==
    /\ abPc = "idle"
    /\ abBy' = by
    /\ abReverse' = reverse
    /\ IF Len(by) # Len(reverse)
       THEN /\ abResult' = Some(Err("ValueError"))
            /\ abPc' = "done"
       ELSE /\ abPc' = "prepare"
            /\ UNCHANGED abResult
    /\ UNCHANGED <<abPrepared, scalarVars, listVars, concatVars, factoryVars>>

\* let (first, by, reverse) = prepare_argsort(...).unwrap()
ArgsortByPrepare ==
    /\ abPc = "prepare"
    /\ LET r == prepare_argsort(abBy, abReverse)
       IN  IF r.ok
           THEN /\ abPrepared' = Some(r)
                /\ abPc' = "sort"
                /\ UNCHANGED abResult
           ELSE /\ abResult' = Some(Err("panic"))
                /\ abPc' = "done"
                /\ UNCHANGED abPrepared
    /\ UNCHANGED <<abBy, abReverse, scalarVars, listVars, concatVars, factoryVars>>

\* first.argsort_multiple(&by, &reverse)
ArgsortBySort ==
    /\ abPc = "sort"
    /\ LET r == Unwrap(abPrepared)
       IN  abResult' = Some(Ok(argsort_multiple(r.first, r.by, r.reverse)))
    /\ abPc' = "done"
    /\ UNCHANGED <<abBy, abReverse, abPrepared, scalarVars, listVars, concatVars, factoryVars>>

NextArgsort ==
    \/ abPc = "idle" /\ \E by \in ArgsortColumns, reverse \in ArgsortFlags :
                            ArgsortByCall(by, reverse)
    \/ ArgsortByPrepare
    \/ ArgsortBySort

---------------------------------------------------------------------------
(* Specifications: one per component, the other components idle *)

\* a fresh scalar builder of any kind and capacity hints
InitScalar ==
    /\ sb \in ScalarNewBuilders
    /\ sbFed = <<>>
    /\ sbOps = {}
    /\ sbOut = <<>>
    /\ lb = ListPrimitiveChunkedBuilder_new(10, 5)
    /\ lbFed = <<>>
    /\ lbOps = {}
    /\ lbLastOp = "new"
    /\ lbLastArg = None
    /\ lbOut = <<>>
    /\ csPc = "idle"
    /\ csS = <<>>
    /\ csDelim = <<>>
    /\ csLen = 0
    /\ csCas = <<>>
    /\ csIters = <<>>
    /\ csBuilder = None
    /\ csBuf = <<>>
    /\ csRow = 0
    /\ csResult = None
    /\ glbCall = None
    /\ glbElem = None
    /\ glbFatal = FALSE
    /\ abPc = "idle"
    /\ abBy = <<>>
    /\ abReverse = <<>>
    /\ abPrepared = None
    /\ abResult = None

\* a fresh list builder of any variant
InitListNumeric ==
    /\ sb = BooleanChunkedBuilder_new(0)
    /\ sbFed = <<>>
    /\ sbOps = {}
    /\ sbOut = <<>>
    /\ lb = ListPrimitiveChunkedBuilder_new(10, 5)
    /\ lbFed = <<>>
    /\ lbOps = {}
    /\ lbLastOp = "new"
    /\ lbLastArg = None
    /\ lbOut = <<>>
    /\ csPc = "idle"
    /\ csS = <<>>
    /\ csDelim = <<>>
    /\ csLen = 0
    /\ csCas = <<>>
    /\ csIters = <<>>
    /\ csBuilder = None
    /\ csBuf = <<>>
    /\ csRow = 0
    /\ csResult = None
    /\ glbCall = None
    /\ glbElem = None
    /\ glbFatal = FALSE
    /\ abPc = "idle"
    /\ abBy = <<>>
    /\ abReverse = <<>>
    /\ abPrepared = None
    /\ abResult = None

InitList ==
    /\ sb = BooleanChunkedBuilder_new(0)
    /\ sbFed = <<>>
    /\ sbOps = {}
    /\ sbOut = <<>>
    /\ lb \in ListNewBuilders
    /\ lbFed = <<>>
    /\ lbOps = {}
    /\ lbLastOp = "new"
    /\ lbLastArg = None
    /\ lbOut = <<>>
    /\ csPc = "idle"
    /\ csS = <<>>
    /\ csDelim = <<>>
    /\ csLen = 0
    /\ csCas = <<>>
    /\ csIters = <<>>
    /\ csBuilder = None
    /\ csBuf = <<>>
    /\ csRow = 0
    /\ csResult = None
    /\ glbCall = None
    /\ glbElem = None
    /\ glbFatal = FALSE
    /\ abPc = "idle"
    /\ abBy = <<>>
    /\ abReverse = <<>>
    /\ abPrepared = None
    /\ abResult = None

\* concat_str not yet called
InitConcat ==
    /\ sb = BooleanChunkedBuilder_new(0)
    /\ sbFed = <<>>
    /\ sbOps = {}
    /\ sbOut = <<>>
    /\ lb = ListPrimitiveChunkedBuilder_new(10, 5)
    /\ lbFed = <<>>
    /\ lbOps = {}
    /\ lbLastOp = "new"
    /\ lbLastArg = None
    /\ lbOut = <<>>
    /\ csPc = "idle"
    /\ csS = <<>>
    /\ csDelim = <<>>
    /\ csLen = 0
    /\ csCas = <<>>
    /\ csIters = <<>>
    /\ csBuilder = None
    /\ csBuf = <<>>
    /\ csRow = 0
    /\ csResult = None
    /\ glbCall = None
    /\ glbElem = None
    /\ glbFatal = FALSE
    /\ abPc = "idle"
    /\ abBy = <<>>
    /\ abReverse = <<>>
    /\ abPrepared = None
    /\ abResult = None

\* the place of a builder that was never constructed
NoBuilder == [kind |-> "None"]

\* either a fresh scalar builder or a fresh list builder, the other never constructed
InitBuilders ==
    /\ \/ sb \in ScalarNewBuilders /\ lb = NoBuilder
       \/ sb = NoBuilder /\ lb \in ListNewBuilders
    /\ sbFed = <<>>
    /\ sbOps = {}
    /\ sbOut = <<>>
    /\ lbFed = <<>>
    /\ lbOps = {}
    /\ lbLastOp = "new"
    /\ lbLastArg = None
    /\ lbOut = <<>>
    /\ csPc = "idle"
    /\ csS = <<>>
    /\ csDelim = <<>>
    /\ csLen = 0
    /\ csCas = <<>>
    /\ csIters = <<>>
    /\ csBuilder = None
    /\ csBuf = <<>>
    /\ csRow = 0
    /\ csResult = None
    /\ glbCall = None
    /\ glbElem = None
    /\ glbFatal = FALSE
    /\ abPc = "idle"
    /\ abBy = <<>>
    /\ abReverse = <<>>
    /\ abPrepared = None
    /\ abResult = None

NextBuilders ==
    \/ sb.kind \in Kinds /\ NextScalar
    \/ lb.kind \in Kinds /\ NextList

\* a fresh Cow-accepting string builder
InitCow ==
    /\ sb \in {Utf8ChunkedBuilderCow_new(c) : c \in Caps}
    /\ sbFed = <<>>
    /\ sbOps = {}
    /\ sbOut = <<>>
    /\ lb = NoBuilder
    /\ lbFed = <<>>
    /\ lbOps = {}
    /\ lbLastOp = "new"
    /\ lbLastArg = None
    /\ lbOut = <<>>
    /\ csPc = "idle"
    /\ csS = <<>>
    /\ csDelim = <<>>
    /\ csLen = 0
    /\ csCas = <<>>
    /\ csIters = <<>>
    /\ csBuilder = None
    /\ csBuf = <<>>
    /\ csRow = 0
    /\ csResult = None
    /\ glbCall = None
    /\ glbElem = None
    /\ glbFatal = FALSE
    /\ abPc = "idle"
    /\ abBy = <<>>
    /\ abReverse = <<>>
    /\ abPrepared = None
    /\ abResult = None

\* get_list_builder not yet called, no builder constructed
InitFactory ==
    /\ sb = [kind |-> "None"]
    /\ sbFed = <<>>
    /\ sbOps = {}
    /\ sbOut = <<>>
    /\ lb = [kind |-> "None"]
    /\ lbFed = <<>>
    /\ lbOps = {}
    /\ lbLastOp = "new"
    /\ lbLastArg = None
    /\ lbOut = <<>>
    /\ csPc = "idle"
    /\ csS = <<>>
    /\ csDelim = <<>>
    /\ csLen = 0
    /\ csCas = <<>>
    /\ csIters = <<>>
    /\ csBuilder = None
    /\ csBuf = <<>>
    /\ csRow = 0
    /\ csResult = None
    /\ glbCall = None
    /\ glbElem = None
    /\ glbFatal = FALSE
    /\ abPc = "idle"
    /\ abBy = <<>>
    /\ abReverse = <<>>
    /\ abPrepared = None
    /\ abResult = None

\* argsort_by not yet called
InitArgsort ==
    /\ sb = [kind |-> "None"]
    /\ sbFed = <<>>
    /\ sbOps = {}
    /\ sbOut = <<>>
    /\ lb = [kind |-> "None"]
    /\ lbFed = <<>>
    /\ lbOps = {}
    /\ lbLastOp = "new"
    /\ lbLastArg = None
    /\ lbOut = <<>>
    /\ csPc = "idle"
    /\ csS = <<>>
    /\ csDelim = <<>>
    /\ csLen = 0
    /\ csCas = <<>>
    /\ csIters = <<>>
    /\ csBuilder = None
    /\ csBuf = <<>>
    /\ csRow = 0
    /\ csResult = None
    /\ glbCall = None
    /\ glbElem = None
    /\ glbFatal = FALSE
    /\ abPc = "idle"
    /\ abBy = <<>>
    /\ abReverse = <<>>
    /\ abPrepared = None
    /\ abResult = None

SpecScalar == InitScalar /\ [][NextScalar]_vars

SpecCow == InitCow /\ [][NextCow]_vars

SpecListTyped == InitList /\ [][NextListTyped]_vars

SpecListInherent == InitListNumeric /\ [][NextListInherent]_vars

SpecFactory == InitFactory /\ [][NextFactory]_vars

SpecArgsort == InitArgsort /\ [][NextArgsort]_vars

SpecBuilders == InitBuilders /\ [][NextBuilders]_vars

SpecList == InitList /\ [][NextList]_vars

SpecConcat == InitConcat /\ [][NextConcat]_vars

---------------------------------------------------------------------------
(* Properties of the scalar builders *)

\* C6: for each scalar builder kind, a sequence of optional values fed one
\* at a time through append_option and then finished reads back, in order,
\* as the identical sequence: same length, same values, nulls at the same
\* positions.
C6_RoundTrip ==
    (sbOut # <<>> /\ sbOps \subseteq {"append_option"}) => ToVec(sbOut[1]) = sbFed

\* a finished Utf8 column fed only through append_option with a null, an
\* empty string and a non-empty string
C6_Witness ==
    /\ sbOut # <<>>
    /\ sbOps = {"append_option"}
    /\ sb.kind = "Utf8"
    /\ sbFed = <<Some(<<"a", "b">>), None, Some(<<>>)>>

---------------------------------------------------------------------------
(* Properties of the list builders *)

\* the column finish would return in the current state
Finished == finish_list_builder(lb)

\* the sub-column with its chunks merged into a single chunk
RECURSIVE ConcatChunks(_)
ConcatChunks(chunks) ==
    IF chunks = <<>> THEN [values |-> <<>>, validity |-> <<>>]
    ELSE LET rest == ConcatChunks(Tail(chunks))
         IN  [values   |-> Head(chunks).values \o rest.values,
              validity |-> Head(chunks).validity \o rest.validity]

AsOneChunk(c) == [c EXCEPT !.chunks = <<ConcatChunks(c.chunks)>>]

C2_ThreeStates ==
    ( /\ lbLastOp = "finish"
      /\ Len(lbOut) = 1
      /\ lbOps = {"append_null", "append_series", "finish"}
      /\ Len(lbFed) = 3
      /\ lbFed[1] = None
      /\ lbFed[2] = Some(<<>>)
      /\ IsSome(lbFed[3])
      /\ Len(Unwrap(lbFed[3])) = 1
      /\ IsSome(Unwrap(lbFed[3])[1]) )
    => ListToVec(lbOut[1]) = lbFed

\* C3: append_null() pushes nothing into the inner values sink, leaves the
\* running offset where it was, and adds exactly one outer row with validity 0.
C3_AppendNullFrame ==
    [][ListAppendNull =>
          /\ lb'.builder.values = lb.builder.values
          /\ Len(lb'.builder.validity) = Len(lb.builder.validity) + 1
          /\ Len(lb'.builder.offsets) = Len(lb.builder.offsets) + 1
          /\ Last(lb'.builder.offsets) = Last(lb.builder.offsets)
          /\ ~Last(lb'.builder.validity)]_vars

\* C4: in every builder state append_opt_series(None) gives the state
\* append_null() gives, and append_opt_series(Some(c)) the state
\* append_series(c) gives.
C4_OptSeriesEquiv ==
    lbOut = <<>> =>
        /\ list_append_opt_series(lb, None) = list_append_null(lb)
        /\ \A c \in Fitting :
               list_append_opt_series(lb, Some(c)) = list_append_series(lb, c)

\* C5: for a sub-column without nulls, append_series gives the same inner
\* values, offsets and validity whether the values come as one chunk or
\* split into several, and the inner run is the old run followed by the
\* chunks' values in chunk order.
C5_ChunkingInvisible ==
    lbOut = <<>> =>
        \A c \in Fitting :
            (null_count(c) = 0 /\ Len(c.chunks) > 1) =>
                LET split == list_append_series(lb, c)
                IN  /\ split = list_append_series(lb, AsOneChunk(c))
                    /\ split.builder.values.values
                           = lb.builder.values.values \o ConcatChunks(c.chunks).values

\* a row written from a null-free sub-column of two non-empty chunks holding
\* different values
C5_Witness ==
    /\ lbLastOp = "append_series"
    /\ lb.kind = "Numeric"
    /\ Unwrap(lbLastArg).chunks = <<ChunkOf(<<[v |-> 0, valid |-> TRUE]>>),
                                     ChunkOf(<<[v |-> 1, valid |-> TRUE]>>)>>
    /\ lb.builder.values.values = <<0, 1>>
    /\ Last(ListToVec(Finished)) = Some(<<Some(0), Some(1)>>)

\* C7: finish returns a column as a normal result at most once per builder;
\* a second call does not return another column.
C7_FinishOnce == Len(lbOut) <= 1

---------------------------------------------------------------------------
(* Properties of concat_str *)

\* the inputs pass both checks: not empty, every length 1 or the maximum
PassesValidation(s) ==
    /\ s # <<>>
    /\ \A j \in 1..Len(s) :
           Len(s[j]) = 1 \/ Len(s[j]) = Max({Len(s[k]) : k \in 1..Len(s)})

\* what input j offers at output row i (1-based): its only value, or its value at i
SourceAt(col, i) == IF Len(col) = 1 THEN col[1] ELSE col[i]

RowHasNull(s, i) == \E j \in 1..Len(s) : SourceAt(s[j], i) = None

\* parts[1] delimiter parts[2] delimiter ... parts[n]
RECURSIVE Join(_, _)
Join(parts, delimiter) ==
    IF Len(parts) = 0 THEN <<>>
    ELSE IF Len(parts) = 1 THEN parts[1]
    ELSE parts[1] \o delimiter \o Join(Tail(parts), delimiter)

ConcatDone == csPc = "done" /\ PassesValidation(csS)

\* the rows of the returned column, read back
ConcatOut == ToVec(Unwrap(csResult).ca)

\* C8: for inputs that pass validation, output row i is null iff some source
\* is null at row i; else it is the sources' values at row i in input order
\* with exactly one delimiter between consecutive sources.
C8_ConcatRows ==
    ConcatDone =>
        /\ Unwrap(csResult).ok
        /\ \A i \in 1..Len(ConcatOut) :
               /\ (ConcatOut[i] = None) <=> RowHasNull(csS, i)
               /\ ~RowHasNull(csS, i) =>
                      ConcatOut[i] = Some(Join([j \in 1..Len(csS) |->
                                                   Unwrap(SourceAt(csS[j], i))], csDelim))

\* two streaming columns joined with "-": the first row null, the second "b-a"
C8_Witness ==
    /\ ConcatDone
    /\ Unwrap(csResult).ok
    /\ csS = << <<None, Some(<<"b">>)>>, <<Some(<<"a">>), Some(<<"a">>)>> >>
    /\ csDelim = <<"-">>
    /\ ConcatOut = <<None, Some(<<"b", "-", "a">>)>>

\* where the value of source j starts in a non-null output row i (0-based)
RECURSIVE StartOf(_, _, _, _)
StartOf(s, j, i, delimiter) ==
    IF j = 1 THEN 0
    ELSE StartOf(s, j - 1, i, delimiter)
         + Len(Unwrap(SourceAt(s[j - 1], i))) + Len(delimiter)

\* C9: for inputs that pass validation the returned column's length is the
\* maximum input length, and every length-1 input contributes its single
\* value to every output row: a null makes every row null, a string stands
\* at its place in every non-null row.
C9_LengthAndBroadcast ==
    ConcatDone =>
        /\ Unwrap(csResult).ok
        /\ Len(ConcatOut) = Max({Len(csS[j]) : j \in 1..Len(csS)})
        /\ \A j \in 1..Len(csS) :
               Len(csS[j]) = 1 =>
                   \A i \in 1..Len(ConcatOut) :
                       /\ csS[j][1] = None => ConcatOut[i] = None
                       /\ ConcatOut[i] # None =>
                              LET v     == Unwrap(csS[j][1])
                                  start == StartOf(csS, j, i, csDelim)
                              IN  SubSeq(Unwrap(ConcatOut[i]), start + 1, start + Len(v)) = v

\* a length-2 column followed by a length-1 column: two rows, both ending in
\* the constant
C9_Witness ==
    /\ ConcatDone
    /\ Unwrap(csResult).ok
    /\ csS = << <<Some(<<"a">>), Some(<<"b">>)>>, <<Some(<<"b">>)>> >>
    /\ csDelim = <<"-">>
    /\ ConcatOut = <<Some(<<"a", "-", "b">>), Some(<<"b", "-", "b">>)>>

\* C10: an empty input list ends in NoData, a length that is neither 1 nor
\* the maximum ends in a ValueError, and in both cases no output builder was
\* constructed and no row was appended.
C10_ErrorsBeforeBuilder ==
    /\ (csPc = "done" /\ csS = <<>>) => csResult = Some(Err("NoData"))
    /\ (csPc = "done" /\ csS # <<>> /\ ~PassesValidation(csS))
           => csResult = Some(Err("ValueError"))
    /\ (csResult # None /\ ~Unwrap(csResult).ok /\ Unwrap(csResult).err \in {"NoData", "ValueError"})
           => (csBuilder = None /\ csRow = 0)

\* inputs of lengths 2 and 0 rejected with a ValueError
C10_Witness ==
    /\ csPc = "done"
    /\ Len(csS) = 2
    /\ Len(csS[1]) = 2
    /\ Len(csS[2]) = 0
    /\ csResult = Some(Err("ValueError"))
    /\ csBuilder = None

---------------------------------------------------------------------------
(* Properties of finish *)

---------------------------------------------------------------------------
(* Properties of the capacity hints *)

\* it.for_each(|opt| builder.append_option(opt))
RECURSIVE AppendOptionAll(_, _)
AppendOptionAll(b, opts) ==
    IF opts = <<>> THEN b
    ELSE AppendOptionAll(append_option(b, Head(opts)), Tail(opts))

\* opt_v.iter().fold(0, |acc, s| match s { Some(s) => acc + s.len(), None => acc })
RECURSIVE values_size(_)
values_size(opt_v) ==
    IF opt_v = <<>> THEN 0
    ELSE (IF IsSome(Head(opt_v)) THEN Len(Unwrap(Head(opt_v))) ELSE 0)
         + values_size(Tail(opt_v))

\* opt_v.iter().for_each(|opt| match opt { Some(v) => append_value, None => append_null })
RECURSIVE AppendValueOrNullAll(_, _)
AppendValueOrNullAll(b, opt_v) ==
    IF opt_v = <<>> THEN b
    ELSE AppendValueOrNullAll(
             IF IsSome(Head(opt_v)) THEN Utf8_append_value(b, Unwrap(Head(opt_v)))
                                    ELSE Utf8_append_null(b),
             Tail(opt_v))

\* Utf8Chunked::new_from_opt_slice: the byte count goes where the row count
\* is expected and the row count where the byte count is expected
Utf8Chunked_new_from_opt_slice(opt_v) ==
    LET builder == Utf8ChunkedBuilder_new(values_size(opt_v), Len(opt_v))
    IN  finish(AppendValueOrNullAll(builder, opt_v))

\* C12: capacity hints never affect the result.  Whatever hints the builder
\* was constructed with, every append so far was accepted, and a builder of
\* the same kind with any other hints, fed the same slots, finishes to the
\* identical column; so does new_from_opt_slice with its swapped hints.
C12_CapacityAdvisory ==
    sbOut = <<>> =>
        /\ ToVec(finish(sb)) = sbFed
        /\ \A b2 \in ScalarNewBuilders :
               b2.kind = sb.kind => finish(AppendOptionAll(b2, sbFed)) = finish(sb)
        /\ sb.kind = "Utf8" => Utf8Chunked_new_from_opt_slice(sbFed) = finish(sb)

\* a Utf8 builder constructed with both hints 0 that holds three slots and
\* four bytes
C12_Witness ==
    /\ sbOut = <<>>
    /\ sb.kind = "Utf8"
    /\ sb.array_builder.capacity = 0
    /\ sb.array_builder.bytes_capacity = 0
    /\ sbFed = <<Some(<<"a", "b">>), None, Some(<<"a", "b">>)>>
    /\ Len(sb.array_builder.values) = 4

---------------------------------------------------------------------------
(* Properties of the Cow-accepting string builder *)

\* C13: the Cow-accepting builder adds no semantics of its own: after any
\* sequence of append_value / append_null / append_option calls it finishes
\* to the column a Utf8ChunkedBuilder finishes to when given the same
\* strings and nulls in the same order, and that column reads back as them.
C13_CowSameColumn ==
    /\ sbOut = <<>> =>
           /\ \A c \in Caps, bc \in Caps :
                  /\ Utf8ChunkedBuilderCow_finish(sb)
                         = finish(AppendOptionAll(Utf8ChunkedBuilder_new(c, bc), sbFed))
                  /\ Utf8ChunkedBuilderCow_finish(sb)
                         = finish(AppendValueOrNullAll(Utf8ChunkedBuilder_new(c, bc), sbFed))
           /\ ToVec(Utf8ChunkedBuilderCow_finish(sb)) = sbFed
    /\ sbOut # <<>> => sbOut[1] = Utf8ChunkedBuilderCow_finish(sb)

\* a Cow-accepting builder finished after all three kinds of call, with a
\* borrowed "a", a null and the empty string
C13_Witness ==
    /\ sb.kind = "Utf8Cow"
    /\ sbOut # <<>>
    /\ sbOps = {"append_value", "append_null", "append_option"}
    /\ sbFed = <<Some(<<"a">>), None, Some(<<>>)>>
    /\ ToVec(sbOut[1]) = sbFed

---------------------------------------------------------------------------
(* Properties of the builder factory *)

\* C14: get_list_builder returns the numeric list builder of the requested
\* element type for a numeric type, the Utf8 list builder for Utf8 and the
\* boolean list builder for Boolean; for any other element type it returns
\* no builder and ends in the fatal branch.
C14_FactoryDispatch ==
    glbCall # None =>
        LET dt == Unwrap(glbCall).dt
        IN  /\ dt \in NumericTypes =>
                   (~glbFatal /\ lb.kind = "Numeric" /\ glbElem = Some(dt))
            /\ dt = "Utf8" => (~glbFatal /\ lb.kind = "Utf8")
            /\ dt = "Boolean" => (~glbFatal /\ lb.kind = "Boolean")
            /\ dt \notin NumericTypes \cup {"Utf8", "Boolean"} =>
                   (glbFatal /\ lb.kind = "None")

---------------------------------------------------------------------------
(* Properties of argsort_by *)

\* C15: argsort_by called with a number of reverse flags different from the
\* number of columns returns a ValueError, and the check comes before any
\* column is prepared or sorted: on that path the call never stands at the
\* preparation or the sort and nothing was prepared.
C15_ArgsortLengthCheck ==
    (abPc # "idle" /\ Len(abBy) # Len(abReverse)) =>
        /\ abPc = "done"
        /\ abResult = Some(Err("ValueError"))
        /\ abPrepared = None

\* two columns and one flag, rejected
C15_Witness ==
    /\ abPc = "done"
    /\ Len(abBy) = 2
    /\ Len(abBy[1]) = 2
    /\ Len(abReverse) = 1
    /\ abResult = Some(Err("ValueError"))
    /\ abPrepared = None

---------------------------------------------------------------------------
(* Properties of the numeric list builder's two append paths *)

---------------------------------------------------------------------------
(* Properties of append_series on a sub-column of another element type *)

---------------------------------------------------------------------------
(* The layout of a list builder while rows are appended *)

---------------------------------------------------------------------------
(* The scratch buffer of concat_str *)

\* the rows the output builder holds so far
ConcatBuilt == ToVec(finish(Unwrap(csBuilder)))

\* C19: in concat_str the scratch buffer is empty at the start of every
\* output row, so a non-null output row holds the text of its own sources
\* and delimiters only, also when the row before it was emitted as null
\* after text had been pushed into the buffer.
C19_ScratchBufferEmpty ==
    csPc = "rows" =>
        /\ csBuf = <<>>
        /\ Len(ConcatBuilt) = csRow
        /\ \A i \in 1..csRow :
               ~RowHasNull(csS, i) =>
                   ConcatBuilt[i] = Some(Join([j \in 1..Len(csS) |->
                                                  Unwrap(SourceAt(csS[j], i))], csDelim))

\* row 1 was emitted as null after "a-" had been pushed; row 2 is "b-a"
C19_Witness ==
    /\ csPc = "rows"
    /\ csRow = 2
    /\ csS = << <<Some(<<"a">>), Some(<<"b">>)>>, <<None, Some(<<"a">>)>> >>
    /\ csDelim = <<"-">>
    /\ csBuf = <<>>
    /\ ConcatBuilt = <<None, Some(<<"b", "-", "a">>)>>

---------------------------------------------------------------------------
(* The sources of concat_str *)

\* C20: in concat_str every source is advanced by exactly one position per
\* output row, also after a null was seen in the row, so every streaming
\* source stands at the row about to be written; and for every input that
\* passes the empty and length checks, inputs of length 1 only and of
\* length 0 only included, no source runs out before the last row: the
\* unreachable!() branch is never taken and the call returns a column.
C20_LockStep ==
    /\ csResult # Some(Err("unreachable"))
    /\ csPc = "rows" =>
           \A j \in 1..Len(csIters) :
               csIters[j].tag = "Column" =>
                   /\ csIters[j].pos = csRow
                   /\ Len(csIters[j].ca) = csLen
    /\ ConcatDone =>
           /\ Unwrap(csResult).ok
           /\ Len(ConcatOut) = csLen
           /\ \A j \in 1..Len(csIters) :
                  csIters[j].tag = "Column" => csIters[j].pos = Len(csIters[j].ca)

\* two streaming sources after a first row in which the first source was
\* null: both stand at the second row
C20_Witness ==
    /\ csPc = "rows"
    /\ csRow = 1
    /\ csS = << <<None, Some(<<"a">>)>>, <<Some(<<"b">>), Some(<<"a">>)>> >>
    /\ \A j \in 1..2 : csIters[j].tag = "Column" /\ csIters[j].pos = 1
    /\ ConcatBuilt = <<None>>

---------------------------------------------------------------------------
(* The capacity hints of get_list_builder *)

\* C21: get_list_builder forwards its hints to every variant alike: the
\* returned builder's row capacity is list_capacity, and its inner values
\* capacity is value_capacity, times 5 for the Utf8 variant and unscaled
\* for the numeric and boolean variants.
C21_HintsForwarded ==
    (glbCall # None /\ ~glbFatal) =>
        /\ lb.builder.capacity = Unwrap(glbCall).list_capacity
        /\ lb.builder.values_capacity =
               IF lb.kind = "Utf8" THEN 5 * Unwrap(glbCall).value_capacity
                                   ELSE Unwrap(glbCall).value_capacity

---------------------------------------------------------------------------
(* The inherent append_slice / append_null of the numeric list builder *)

\* the sub-column of one chunk holding the values v, none of them null
SingleChunk(v) ==
    [dtype |-> "Numeric",
     chunks |-> <<ChunkOf([i \in 1..Len(v) |-> [v |-> v[i], valid |-> TRUE]])>>]

\* the one-chunk sub-column of a row as it was fed
RowColumn(row) ==
    [dtype |-> "Numeric",
     chunks |-> <<ChunkOf([i \in 1..Len(row) |->
                     IF IsSome(row[i]) THEN [v |-> Unwrap(row[i]), valid |-> TRUE]
                                       ELSE [v |-> NumDefault, valid |-> FALSE]])>>]

\* the builder that the trait's calls alone make of the rows fed
RECURSIVE TraitOnly(_)
TraitOnly(rows) ==
    IF rows = <<>> THEN ListPrimitiveChunkedBuilder_new(10, 5)
    ELSE LET b == TraitOnly(SubSeq(rows, 1, Len(rows) - 1))
             row == rows[Len(rows)]
         IN  IF IsSome(row) THEN ListPrimitive_append_series(b, RowColumn(Unwrap(row)))
                            ELSE ListPrimitive_append_null(b)

---------------------------------------------------------------------------
(* The byte capacity of the output builder of concat_str *)

\* the byte capacity the output builder was constructed with
ConcatBytesCap == Unwrap(csBuilder).array_builder.bytes_capacity

\* the payload of the sources whose length is the output length
RECURSIVE StreamingSizes(_, _)
StreamingSizes(s, length) ==
    IF s = <<>> THEN 0
    ELSE (IF Len(Head(s)) = length THEN get_values_size(Head(s)) ELSE 0)
         + StreamingSizes(Tail(s), length)

\* the payload of all sources, that of a length-1 source among longer ones
\* counted once per output row
RECURSIVE BroadcastSizes(_, _)
BroadcastSizes(s, length) ==
    IF s = <<>> THEN 0
    ELSE (IF Len(Head(s)) = length THEN get_values_size(Head(s))
                                   ELSE length * get_values_size(Head(s)))
         + BroadcastSizes(Tail(s), length)

\* C23 as stated: concat_str constructs its output builder with a byte
\* capacity equal to the summed payload of the streaming sources (those
\* whose length is the output length) only; length-1 constant sources add
\* nothing to it.
C23_StreamingSourcesOnly ==
    csBuilder # None => ConcatBytesCap = StreamingSizes(csS, csLen)

\* C23 amended: concat_str constructs its output builder with a byte
\* capacity equal to the summed payload of all sources after broadcast: a
\* source of the output length counts its payload, a length-1 source among
\* longer ones counts its payload once per output row.
C23_AllSourcesAfterBroadcast ==
    csBuilder # None => ConcatBytesCap = BroadcastSizes(csS, csLen)

\* a streaming column "a", "b" and the constant "a": 2 bytes and 2 x 1 byte
C23_Witness ==
    /\ csBuilder # None
    /\ csS = << <<Some(<<"a">>), Some(<<"b">>)>>, <<Some(<<"a">>)>> >>
    /\ csLen = 2
    /\ ConcatBytesCap = 4

====
